---------------------------- MODULE Spec2Model ----------------------------
(***************************************************************************)
(* archi-view-importer: the model index, the view diff, the folder path    *)
(* resolver and the merge engine of src/src/main.rs, with the run of main. *)
(*                                                                         *)
(* An XML document is a sequence of element records in document order;     *)
(* the field parent of a record is the position of its parent element in   *)
(* the same sequence (0 for the outermost element).  A Xot tree is an      *)
(* arena: nodes[h] is the element with handle h and kids[h] the ordered    *)
(* list of the handles of its element children.  An attribute is an        *)
(* Option: <<>> when the attribute is absent, <<v>> when it has value v.   *)
(* An xsi:type value is a sequence of tokens, so that ends_with is a       *)
(* suffix test.                                                            *)
(***************************************************************************)
EXTENDS Integers, Sequences, FiniteSets, TLC

VARIABLES source, target, pc, missing_views, rerun_missing_views,
          selected_indices, idx_pos, copied, file, write_calls,
          last_op, prev_op, calls, parse_call

vars == <<source, target, pc, missing_views, rerun_missing_views,
          selected_indices, idx_pos, copied, file, write_calls,
          last_op, prev_op, calls, parse_call>>

-----------------------------------------------------------------------------
(* Bounds of the exploration *)

\* number of direct calls of the merge engine / folder resolver explored
MaxCalls == 3

\* length of the selection lines and number of candidates parse_selection is tried on
MaxInputLen == 5
MaxCount == 2

\* number of nodes below the root container of the documents the indexer is tried on
MaxNodes == 4

-----------------------------------------------------------------------------
(* Generic helpers *)

None == <<>>
Some(v) == <<v>>

RECURSIVE SetToSeq(_)
SetToSeq(S) ==
    IF S = {} THEN <<>>
    ELSE LET m == CHOOSE x \in S : \A y \in S : x <= y
         IN  <<m>> \o SetToSeq(S \ {m})

RECURSIVE Flatten(_)
Flatten(ss) == IF ss = <<>> THEN <<>> ELSE Head(ss) \o Flatten(Tail(ss))

Range(s) == {s[i] : i \in 1..Len(s)}

\* every order in which the entries of a hash set / hash map can be visited
Orders(S) == {f \in [1..Cardinality(S) -> S] : \A i, j \in 1..Cardinality(S) : f[i] = f[j] => i = j}

\* ends_with written as an equality
EndsWith_equal(s, suffix) == s = suffix

EndsWith(s, suffix) ==
    /\ Len(s) >= Len(suffix)
    /\ SubSeq(s, Len(s) - Len(suffix) + 1, Len(s)) = suffix

-----------------------------------------------------------------------------
(* The Xot tree API used by main.rs *)

RootContainer == 1

XmlElement(tag, id, name, type, xsi_type, elemRef, relRef, parent) ==
    [tag |-> tag, id |-> id, name |-> name, type |-> type, xsi_type |-> xsi_type,
     archimateElement |-> elemRef, archimateRelationship |-> relRef, parent |-> parent]

\* xot.parse / xot.parse_fragment: the text becomes a tree of its own
xot_parse(xml) ==
    [nodes |-> xml,
     kids  |-> [h \in 1..Len(xml) |-> SetToSeq({j \in 1..Len(xml) : xml[j].parent = h})]]

RECURSIVE Preorder(_, _)
Preorder(tree, n) ==
    <<n>> \o Flatten([i \in 1..Len(tree.kids[n]) |-> Preorder(tree, tree.kids[n][i])])

\* xot.serialize_xml_string: the subtree of n in document order
serialize_xml_string(tree, n) ==
    LET pre == Preorder(tree, n)
        pos(h) == CHOOSE i \in 1..Len(pre) : pre[i] = h
    IN  [i \in 1..Len(pre) |->
            [tree.nodes[pre[i]] EXCEPT !.parent = IF i = 1 THEN 0 ELSE pos(tree.nodes[pre[i]].parent)]]

\* xot_append with the new node taking the place of the children parent had
xot_append_replacing(tree, parent, sub) ==
    LET off == Len(tree.nodes)
        n   == Len(sub.nodes)
    IN  [nodes |-> tree.nodes \o
                   [i \in 1..n |-> [sub.nodes[i] EXCEPT !.parent = IF i = 1 THEN parent ELSE @ + off]],
         kids  |-> [tree.kids EXCEPT ![parent] = <<off + 1>>] \o
                   [i \in 1..n |-> [j \in 1..Len(sub.kids[i]) |-> sub.kids[i][j] + off]]]

\* xot.append(parent, document_element(sub)): sub is moved below parent as its last child
xot_append(tree, parent, sub) ==
    LET off == Len(tree.nodes)
        n   == Len(sub.nodes)
    IN  [nodes |-> tree.nodes \o
                   [i \in 1..n |-> [sub.nodes[i] EXCEPT !.parent = IF i = 1 THEN parent ELSE @ + off]],
         kids  |-> [tree.kids EXCEPT ![parent] = Append(@, off + 1)] \o
                   [i \in 1..n |-> [j \in 1..Len(sub.kids[i]) |-> sub.kids[i][j] + off]]]

\* xot.children(node).filter(is_element)
xot_children(tree, node) == tree.kids[node]

\* xot.new_element("folder") with attributes set, not yet attached
new_folder(id, name, type) ==
    xot_parse(<<XmlElement("folder", id, name, type, None, None, None, 0)>>)

-----------------------------------------------------------------------------
(* Model Indexer: load_model, extract_elements, traverse_folders *)

DiagramModelSuffix == <<"ArchimateDiagramModel">>

ElementInfo(n, xml_string, folder_path) ==
    [id |-> n.id[1],
     name |-> IF n.name = None THEN "" ELSE n.name[1],
     xml_string |-> xml_string,
     folder_path |-> folder_path]

FolderInfo(n) == [id |-> n.id[1], name |-> n.name[1]]

\* the (bucket, entry) insertions of the walk below node, in the order they are made
RECURSIVE traverse_folders(_, _, _)
traverse_folders(tree, node, current_path) ==
    LET ch == xot_children(tree, node)
        visit(child) ==
            LET n == tree.nodes[child]
            IN  IF n.tag = "element"
                THEN IF n.xsi_type # None
                     THEN <<[bucket |-> IF EndsWith(n.xsi_type[1], DiagramModelSuffix)
                                        THEN "views" ELSE "elements",
                             info   |-> ElementInfo(n, serialize_xml_string(tree, child), current_path)]>>
                     ELSE <<>>
                ELSE IF n.tag = "folder"
                     THEN traverse_folders(tree, child, Append(current_path, FolderInfo(n)))
                     ELSE <<>>
    IN  Flatten([i \in 1..Len(ch) |-> visit(ch[i])])

\* HashMap filled by the insertions of one bucket: a later insert of a key replaces the earlier
HashMapOf(inserts, bucket) ==
    LET idx  == {i \in 1..Len(inserts) : inserts[i].bucket = bucket}
        last(k) == CHOOSE i \in idx : /\ inserts[i].info.id = k
                                      /\ \A j \in idx : inserts[j].info.id = k => j <= i
    IN  [k \in {inserts[i].info.id : i \in idx} |-> inserts[last(k)].info]

\* extract_elements that starts the walk of a top folder with an empty path
extract_elements_rootless(tree) ==
    LET ch == xot_children(tree, RootContainer)
        top(child) ==
            IF tree.nodes[child].tag = "folder"
            THEN traverse_folders(tree, child, <<>>)
            ELSE <<>>
        inserts == Flatten([i \in 1..Len(ch) |-> top(ch[i])])
    IN  [element_map |-> HashMapOf(inserts, "elements"),
         view_map    |-> HashMapOf(inserts, "views")]

extract_elements(tree) ==
    LET ch == xot_children(tree, RootContainer)
        top(child) ==
            IF tree.nodes[child].tag = "folder"
            THEN traverse_folders(tree, child, <<FolderInfo(tree.nodes[child])>>)
            ELSE <<>>
        inserts == Flatten([i \in 1..Len(ch) |-> top(ch[i])])
    IN  [element_map |-> HashMapOf(inserts, "elements"),
         view_map    |-> HashMapOf(inserts, "views")]

load_model(content) ==
    LET tree == xot_parse(content)
        maps == extract_elements(tree)
    IN  [tree |-> tree, element_map |-> maps.element_map, view_map |-> maps.view_map]

-----------------------------------------------------------------------------
(* The documents the runs start from *)

Model == XmlElement("model", None, None, None, None, None, None, 0)
Folder(id, name, type, parent) ==
    XmlElement("folder", Some(id), Some(name), type, None, None, None, parent)
Element(xsi, id, name, parent) ==
    XmlElement("element", Some(id), name, None, Some(<<"archimate:", xsi>>), None, None, parent)
Untyped(id, parent) ==
    XmlElement("element", Some(id), None, None, None, None, None, parent)
Child(elemRef, relRef, parent) ==
    XmlElement("child", None, None, None, None, elemRef, relRef, parent)

\* two views sharing e1; v1 reaches r1 through a nested connection; v2 references
\* an id (ex) that no node of the document carries
SourceA ==
    << Model,
       Folder("fb", "Business", Some("business"), 1),
         Element("BusinessActor", "e1", Some("Actor"), 2),
         Folder("fs", "Sub", None, 2),
           Element("BusinessRole", "e2", Some("Role"), 4),
       Folder("fr", "Relations", Some("relations"), 1),
         Element("AssociationRelationship", "r1", None, 6),
       Folder("fv", "Views", Some("diagrams"), 1),
         Element("ArchimateDiagramModel", "v1", Some("ViewA"), 8),
           Child(Some("e1"), None, 9),
             Child(None, Some("r1"), 10),
           Child(Some("e2"), None, 9),
         Element("ArchimateDiagramModel", "v2", Some("ViewB"), 8),
           Child(Some("e1"), None, 13),
           Child(Some("ex"), None, 13) >>

\* two views of the same name; v3 lies in a nested folder and references e1 through
\* both attributes of one node; n1 carries no xsi:type
SourceB ==
    << Model,
       Folder("fb", "Business", Some("business"), 1),
         Element("BusinessActor", "e1", Some("Actor"), 2),
         Untyped("n1", 2),
       Folder("fv", "Views", Some("diagrams"), 1),
         Folder("fd", "Deep", None, 5),
           Element("ArchimateDiagramModel", "v3", Some("ViewA"), 6),
             Child(Some("e1"), Some("e1"), 7),
         Element("ArchimateDiagramModel", "v1", Some("ViewA"), 5),
           Child(Some("e1"), None, 9) >>

\* the target of the unit tests: one empty diagrams folder
TargetViewsOnly ==
    << Model,
       Folder("folder-1", "Views", Some("diagrams"), 1) >>

\* a target that has e1 and v2 already, two folders named Business, and a folder
\* whose id is the id of the source's folder Sub
TargetPopulated ==
    << Model,
       Folder("tb", "Business", Some("business"), 1),
         Element("BusinessActor", "e1", Some("Actor"), 2),
       Folder("tb2", "Business", None, 1),
       Folder("fs", "Other", Some("other"), 1),
       Folder("tv", "Views", None, 1),
         Element("ArchimateDiagramModel", "v2", Some("ViewB"), 6),
           Child(Some("e1"), None, 7) >>

\* a target without any folder
TargetEmpty == << Model >>

SourceDocuments == {SourceA, SourceB}
TargetDocuments == {TargetViewsOnly, TargetPopulated, TargetEmpty}

-----------------------------------------------------------------------------
(* Diff Engine *)

\* find_missing_views without the contains_key test
find_missing_views_unfiltered(src, tgt, iter) ==
    [i \in 1..Len(iter) |->
        [id          |-> src.view_map[iter[i]].id,
         name        |-> src.view_map[iter[i]].name,
         folder_path |-> src.view_map[iter[i]].folder_path]]

\* iter: the order in which this run's HashMap source.view_map yields its entries
find_missing_views(src, tgt, iter) ==
    LET keep == SelectSeq(iter, LAMBDA id : id \notin DOMAIN tgt.view_map)
    IN  [i \in 1..Len(keep) |->
            [id          |-> src.view_map[keep[i]].id,
             name        |-> src.view_map[keep[i]].name,
             folder_path |-> src.view_map[keep[i]].folder_path]]

-----------------------------------------------------------------------------
(* Folder Path Resolver *)

CategoryLabel(folder_type) ==
    CASE folder_type = "business" -> "Business"
      [] folder_type = "application" -> "Application"
      [] folder_type = "technology" -> "Technology & Physical"
      [] folder_type = "strategy" -> "Strategy"
      [] folder_type = "motivation" -> "Motivation"
      [] folder_type = "implementation_migration" -> "Implementation & Migration"
      [] folder_type = "relations" -> "Relations"
      [] folder_type = "diagrams" -> "Views"
      [] OTHER -> "Other"

\* first_folder_child that never matches
first_folder_child_none(tree, node, attr, value) == 0

\* first element child of node that is a folder with the given value of attribute attr; 0 if none
first_folder_child(tree, node, attr, value) ==
    LET ch   == xot_children(tree, node)
        hits == {i \in 1..Len(ch) : /\ tree.nodes[ch[i]].tag = "folder"
                                    /\ tree.nodes[ch[i]][attr] = Some(value)}
    IN  IF hits = {} THEN 0 ELSE ch[CHOOSE i \in hits : \A j \in hits : i <= j]

\* uuid: the value of Uuid::new_v4() of this call
find_or_create_folder(tree, folder_type, uuid) ==
    LET found == first_folder_child(tree, RootContainer, "type", folder_type)
    IN  IF found # 0
        THEN [tree |-> tree, node |-> found]
        ELSE LET t == xot_append(tree, RootContainer,
                                 new_folder(Some(uuid), Some(CategoryLabel(folder_type)), Some(folder_type)))
             IN  [tree |-> t, node |-> Len(t.nodes)]

\* the loop of recursive_find_or_create_folder_path from segment k on
RECURSIVE folder_path_loop(_, _, _, _)
folder_path_loop(tree, current, folder_path, k) ==
    IF k > Len(folder_path)
    THEN [tree |-> tree, node |-> current]
    ELSE LET next_folder == first_folder_child(tree, current, "name", folder_path[k].name)
         IN  IF next_folder # 0
             THEN folder_path_loop(tree, next_folder, folder_path, k + 1)
             ELSE LET t == xot_append(tree, current,
                                      new_folder(Some(folder_path[k].id), Some(folder_path[k].name), None))
                  IN  folder_path_loop(t, Len(t.nodes), folder_path, k + 1)

\* recursive_find_or_create_folder_path that takes the fallback for every path
recursive_find_or_create_folder_path_fallback(tree, folder_path, uuid) ==
    find_or_create_folder(tree, "diagrams", uuid)

recursive_find_or_create_folder_path(tree, folder_path, uuid) ==
    IF folder_path = <<>>
    THEN find_or_create_folder(tree, "diagrams", uuid)
    ELSE folder_path_loop(tree, RootContainer, folder_path, 1)

-----------------------------------------------------------------------------
(* Reference Extractor and Merge Engine *)

\* an insert under the name of the entry instead of its id
HashMapInsert_by_name(m, k, v) ==
    [x \in DOMAIN m \cup {v.name} |-> IF x = v.name THEN v ELSE m[x]]

\* an insert that is lost
HashMapInsert_lost(m, k, v) == m

HashMapInsert(m, k, v) == [x \in DOMAIN m \cup {k} |-> IF x = k THEN v ELSE m[x]]

RECURSIVE extract_references(_, _)
extract_references(tree, node) ==
    LET ch   == xot_children(tree, node)
        subs == {extract_references(tree, ch[i]) : i \in 1..Len(ch)}
        n    == tree.nodes[node]
    IN  [elements  |-> Range(n.archimateElement) \cup UNION {r.elements : r \in subs},
         relations |-> Range(n.archimateRelationship) \cup UNION {r.relations : r \in subs}]

\* the two reference sets of a view of the source index
referenced(src, view_id) ==
    extract_references(xot_parse(src.view_map[view_id].xml_string), 1)

\* fails: xot.parse of the stored xml_string returns Err
insert_new_element(src, tgt, element_id, uuid, fails) ==
    IF element_id \in DOMAIN src.element_map
    THEN LET info == src.element_map[element_id]
             r    == recursive_find_or_create_folder_path(tgt.tree, info.folder_path, uuid)
         IN  IF fails
             THEN [target |-> [tgt EXCEPT !.tree = r.tree], ok |-> FALSE]
             ELSE [target |-> [tgt EXCEPT
                                 !.tree = xot_append(r.tree, r.node, xot_parse(info.xml_string)),
                                 !.element_map = HashMapInsert(@, element_id, info)],
                   ok |-> TRUE]
    ELSE [target |-> tgt, ok |-> TRUE]

insert_new_view(src, tgt, element_id, uuid, fails) ==
    IF element_id \in DOMAIN src.view_map
    THEN LET info == src.view_map[element_id]
             r    == recursive_find_or_create_folder_path(tgt.tree, info.folder_path, uuid)
         IN  IF fails
             THEN [target |-> [tgt EXCEPT !.tree = r.tree], ok |-> FALSE]
             ELSE [target |-> [tgt EXCEPT
                                 !.tree = xot_append(r.tree, r.node, xot_parse(info.xml_string)),
                                 !.element_map = HashMapInsert(@, element_id, info)],
                   ok |-> TRUE]
    ELSE [target |-> tgt, ok |-> TRUE]

\* the two for loops of copy_view over todo, from position k on; fail_at is the
\* position whose insert_new_element meets the parse error (0: none)
RECURSIVE insert_loop(_, _, _, _, _, _)
insert_loop(src, tgt, todo, k, uuid, fail_at) ==
    IF k > Len(todo)
    THEN [target |-> tgt, ok |-> TRUE]
    ELSE LET r == insert_new_element(src, tgt, todo[k], uuid, fail_at = k)
         IN  IF r.ok THEN insert_loop(src, r.target, todo, k + 1, uuid, fail_at) ELSE r

\* the filter of copy_view without its contains_key test
new_ids_unfiltered(iter, tgt) == iter

\* copy_view 438-448: the referenced ids, in iteration order, that target.element_map lacks
new_ids(iter, tgt) == SelectSeq(iter, LAMBDA id : id \notin DOMAIN tgt.element_map)

\* elem_iter, rel_iter: the orders in which the two HashSets yield their entries;
\* fail: the fallible step that returns Err (0 none, 1 parse_fragment,
\* 1 + j the j-th insert_new_element, Len(todo) + 2 insert_new_view)
copy_view(src, tgt, view, elem_iter, rel_iter, uuid, fail) ==
    LET new_elements  == new_ids(elem_iter, tgt)
        new_relations == new_ids(rel_iter, tgt)
        todo == new_elements \o new_relations
        ins  == insert_loop(src, tgt, todo, 1, uuid, fail - 1)
        v    == insert_new_view(src, ins.target, view.id, uuid, fail = Len(todo) + 2)
    IN  IF fail = 1 THEN [target |-> tgt, ok |-> FALSE, ret |-> <<0, 0, 0>>]
        ELSE IF ~ins.ok THEN [target |-> ins.target, ok |-> FALSE, ret |-> <<0, 0, 0>>]
        ELSE IF ~v.ok THEN [target |-> v.target, ok |-> FALSE, ret |-> <<0, 0, 0>>]
        ELSE [target |-> v.target, ok |-> TRUE,
              ret |-> <<1, Len(new_elements), Len(new_relations)>>]

-----------------------------------------------------------------------------
(* Selection: parse_selection over strings given as sequences of characters *)

Whitespace == {" "}

RECURSIVE Trim(_)
Trim(s) ==
    IF s = <<>> THEN s
    ELSE IF Head(s) \in Whitespace THEN Trim(Tail(s))
    ELSE IF s[Len(s)] \in Whitespace THEN Trim(SubSeq(s, 1, Len(s) - 1))
    ELSE s

ToLowercase(s) ==
    [i \in 1..Len(s) |-> CASE s[i] = "A" -> "a" [] s[i] = "L" -> "l" [] OTHER -> s[i]]

RECURSIVE Split(_, _)
Split(s, c) ==
    LET hits == {i \in 1..Len(s) : s[i] = c}
    IN  IF hits = {} THEN <<s>>
        ELSE LET i == CHOOSE x \in hits : \A y \in hits : x <= y
             IN  <<SubSeq(s, 1, i - 1)>> \o Split(SubSeq(s, i + 1, Len(s)), c)

Digits == {"0", "1", "2", "3", "4", "5", "6", "7", "8", "9"}
DigitValue(c) ==
    CASE c = "0" -> 0 [] c = "1" -> 1 [] c = "2" -> 2 [] c = "3" -> 3 [] c = "4" -> 4
      [] c = "5" -> 5 [] c = "6" -> 6 [] c = "7" -> 7 [] c = "8" -> 8 [] c = "9" -> 9

RECURSIVE DecimalValue(_)
DecimalValue(s) ==
    IF s = <<>> THEN 0 ELSE 10 * DecimalValue(SubSeq(s, 1, Len(s) - 1)) + DigitValue(s[Len(s)])

\* str::parse::<usize>: an optional +, then one digit or more
parse_usize(s) ==
    LET digits == IF s # <<>> /\ Head(s) = "+" THEN Tail(s) ELSE s
    IN  IF digits # <<>> /\ Range(digits) \subseteq Digits
        THEN [ok |-> TRUE, val |-> DecimalValue(digits)]
        ELSE [ok |-> FALSE, val |-> 0]

SelectionErr == [ok |-> FALSE, val |-> <<>>]

\* the loop over the comma separated parts from part k on; selected is the HashSet
RECURSIVE parse_parts(_, _, _, _)
parse_parts(parts, k, max_count, selected) ==
    IF k > Len(parts)
    THEN [ok |-> TRUE, val |-> SetToSeq(selected)]
    ELSE LET part == Trim(parts[k])
         IN  IF part = <<>>
             THEN parse_parts(parts, k + 1, max_count, selected)
             ELSE IF "-" \in Range(part)
             THEN LET range == Split(part, "-")
                  IN  IF Len(range) = 2
                      THEN LET start == parse_usize(Trim(range[1]))
                               end   == parse_usize(Trim(range[2]))
                           IN  IF ~start.ok \/ ~end.ok
                               THEN SelectionErr
                               ELSE IF start.val > end.val \/ start.val = 0 \/ end.val > max_count
                               THEN SelectionErr
                               ELSE parse_parts(parts, k + 1, max_count,
                                                selected \cup (start.val..end.val))
                      ELSE parse_parts(parts, k + 1, max_count, selected)
             ELSE LET num == parse_usize(part)
                  IN  IF ~num.ok
                      THEN SelectionErr
                      ELSE IF num.val = 0 \/ num.val > max_count
                      THEN SelectionErr
                      ELSE parse_parts(parts, k + 1, max_count, selected \cup {num.val})

parse_selection(input, max_count) ==
    IF ToLowercase(Trim(input)) = <<"a", "l", "l">>
    THEN [ok |-> TRUE, val |-> [i \in 1..max_count |-> i]]
    ELSE parse_parts(Split(input, ","), 1, max_count, {})

\* the lines typed at the prompt (get_input has trimmed them)
Inputs ==
    { <<>>,
      <<"a", "l", "l">>,
      <<"A", "l", "l">>,
      <<"1">>,
      <<"2">>,
      <<"2", ",", "1">>,
      <<"1", ",", " ", "1">>,
      <<"1", "-", "2">>,
      <<"0">>,
      <<"3">>,
      <<"x">>,
      <<"2", "-", "1">>,
      <<"1", "-", "2", "-", "3">> }

\* the values of the --view flags
ViewNames == {"ViewA", "ViewB", "Missing"}
ArgViews == {<<a>> : a \in ViewNames} \cup {<<a, b>> : a \in ViewNames, b \in ViewNames}

\* missing_views.iter().position(|v| v.name == view_name), 1-based; 0 when None
position(missing, view_name) ==
    LET hits == {i \in 1..Len(missing) : missing[i].name = view_name}
    IN  IF hits = {} THEN 0 ELSE CHOOSE i \in hits : \A j \in hits : i <= j

RECURSIVE indices_of(_, _)
indices_of(missing, views) ==
    IF views = <<>> THEN <<>>
    ELSE LET pos == position(missing, Head(views))
         IN  (IF pos # 0 THEN <<pos>> ELSE <<>>) \o indices_of(missing, Tail(views))

-----------------------------------------------------------------------------
(* State *)

\* the values Uuid::new_v4() can return: identifiers no node of the tree carries
Uuids == {"id-u1", "id-u2"}
FreshUuids(tree) == Uuids \ {tree.nodes[h].id[1] : h \in {x \in 1..Len(tree.nodes) : tree.nodes[x].id # None}}

\* the record of the last call of the merge engine or of the folder resolver:
\* its arguments, its result, and the target model it started from
NoOp(tgt) ==
    [op |-> "none", ok |-> TRUE, view |-> "", ret |-> <<0, 0, 0>>,
     path |-> <<>>, node |-> 0, pre |-> tgt]

Summary(o) == [op |-> o.op, ok |-> o.ok, view |-> o.view, ret |-> o.ret,
               path |-> o.path, node |-> o.node]

\* the record of the last call of parse_selection: its arguments and its result
NoParseCall ==
    [called |-> FALSE, input |-> <<>>, max_count |-> 0, result |-> [ok |-> TRUE, val |-> <<>>]]

ParseCall(input, max_count, result) ==
    [called |-> TRUE, input |-> input, max_count |-> max_count, result |-> result]

MissingOf(src, id) ==
    [id |-> src.view_map[id].id, name |-> src.view_map[id].name,
     folder_path |-> src.view_map[id].folder_path]

InitModels ==
    /\ source \in {load_model(d) : d \in SourceDocuments}
    /\ \E d \in TargetDocuments : target = load_model(d) /\ file = d
    /\ missing_views = <<>>
    /\ rerun_missing_views = None
    /\ selected_indices = <<>>
    /\ idx_pos = 1
    /\ copied = <<0, 0, 0>>
    /\ write_calls = 0
    /\ last_op = NoOp(target)
    /\ prev_op = Summary(NoOp(target))
    /\ calls = 0
    /\ parse_call = NoParseCall

Init == InitModels /\ pc = "diff"

InitApi == InitModels /\ pc = "api"

-----------------------------------------------------------------------------
(* The run of main *)

\* main.rs 119-124
FindMissingViews ==
    /\ pc = "diff"
    /\ \E iter \in Orders(DOMAIN source.view_map) :
          /\ missing_views' = find_missing_views(source, target, iter)
          /\ pc' = IF missing_views' = <<>> THEN "done" ELSE "select"
    /\ UNCHANGED <<parse_call, source, target, rerun_missing_views, selected_indices, idx_pos,
                   copied, file, write_calls, last_op, prev_op, calls>>

\* another run of the program over the same two documents, up to its listing
FindMissingViewsRerun ==
    /\ pc = "select"
    /\ rerun_missing_views = None
    /\ \E iter \in Orders(DOMAIN source.view_map) :
          rerun_missing_views' = Some(find_missing_views(source, target, iter))
    /\ UNCHANGED <<parse_call, source, target, pc, missing_views, selected_indices, idx_pos,
                   copied, file, write_calls, last_op, prev_op, calls>>

Selected(indices) ==
    /\ selected_indices' = indices
    /\ pc' = IF indices = <<>> THEN "done" ELSE "copy"

\* main.rs 132-141, 147-150
SelectByFlags ==
    /\ pc = "select"
    /\ \E views \in ArgViews : Selected(indices_of(missing_views, views))
    /\ UNCHANGED <<parse_call, source, target, missing_views, rerun_missing_views, idx_pos,
                   copied, file, write_calls, last_op, prev_op, calls>>

\* main.rs 143-144, 147-150
SelectInteractive ==
    /\ pc = "select"
    /\ \E input \in Inputs :
          LET r == parse_selection(input, Len(missing_views))
          IN  /\ parse_call' = ParseCall(input, Len(missing_views), r)
              /\ IF r.ok THEN Selected(r.val)
                 ELSE pc' = "failed" /\ UNCHANGED selected_indices
    /\ UNCHANGED <<source, target, missing_views, rerun_missing_views, idx_pos,
                   copied, file, write_calls, last_op, prev_op, calls>>

Recorded(r, op, view_id, path) ==
    /\ target' = r.target
    /\ last_op' = [op |-> op, ok |-> r.ok, view |-> view_id, ret |-> r.ret,
                   path |-> path, node |-> r.node, pre |-> target]
    /\ prev_op' = Summary(last_op)

\* the loop of main with the Err of copy_view dropped instead of returned
after_copy_ignoring_err(ok, pos, n) == IF pos = n THEN "serialize" ELSE "copy"

\* where main goes after the iteration at position pos of n: the ? returns on Err
after_copy(ok, pos, n) ==
    IF ok THEN (IF pos = n THEN "serialize" ELSE "copy") ELSE "failed"

\* main.rs 155-162: one iteration of the loop over selected_indices
CopyView ==
    /\ pc = "copy"
    /\ LET view == missing_views[selected_indices[idx_pos]]
           refs == referenced(source, view.id)
       IN  \E elem_iter \in Orders(refs.elements), rel_iter \in Orders(refs.relations),
              uuid \in FreshUuids(target.tree),
              fail \in 0..(Cardinality(refs.elements) + Cardinality(refs.relations) + 2) :
                LET r == copy_view(source, target, view, elem_iter, rel_iter, uuid, fail)
                IN  /\ Recorded(r @@ [node |-> 0], "copy", view.id, <<>>)
                    /\ pc' = after_copy(r.ok, idx_pos, Len(selected_indices))
                    /\ IF r.ok
                       THEN /\ copied' = <<copied[1] + r.ret[1], copied[2] + r.ret[2],
                                           copied[3] + r.ret[3]>>
                            /\ idx_pos' = idx_pos + 1
                       ELSE UNCHANGED <<copied, idx_pos>>
    /\ UNCHANGED <<parse_call, source, missing_views, rerun_missing_views, selected_indices,
                   file, write_calls, calls>>

\* main.rs 164-173: serialize_xml_string returns Err
SerializeFails ==
    /\ pc = "serialize"
    /\ pc' = "failed"
    /\ UNCHANGED <<parse_call, source, target, missing_views, rerun_missing_views, selected_indices,
                   idx_pos, copied, file, write_calls, last_op, prev_op, calls>>

\* main.rs 164-180: the document is serialized and write_xml is called with it;
\* a write that returns Err leaves the old text or a truncated file
WriteTarget ==
    /\ pc = "serialize"
    /\ write_calls' = write_calls + 1
    /\ \/ /\ file' = serialize_xml_string(target.tree, RootContainer)
          /\ pc' = "done"
       \/ /\ file' \in {file, <<>>}
          /\ pc' = "exit1"
    /\ UNCHANGED <<parse_call, source, target, missing_views, rerun_missing_views, selected_indices,
                   idx_pos, copied, last_op, prev_op, calls>>

Next ==
    \/ FindMissingViews
    \/ FindMissingViewsRerun
    \/ SelectByFlags
    \/ SelectInteractive
    \/ CopyView
    \/ SerializeFails
    \/ WriteTarget

Spec == Init /\ [][Next]_vars

-----------------------------------------------------------------------------
(* The merge engine and the folder resolver called directly, in any sequence *)

FolderPaths ==
    { <<>>,
      <<[id |-> "fb", name |-> "Business"]>>,
      <<[id |-> "fb", name |-> "Business"], [id |-> "fs", name |-> "Sub"]>>,
      <<[id |-> "fv", name |-> "Views"], [id |-> "fd", name |-> "Deep"]>>,
      <<[id |-> "fn", name |-> "New"]>> }

ApiCopyView ==
    /\ pc = "api"
    /\ calls < MaxCalls
    /\ \E id \in DOMAIN source.view_map :
          LET view == MissingOf(source, id)
              refs == referenced(source, id)
          IN  \E elem_iter \in Orders(refs.elements), rel_iter \in Orders(refs.relations),
                 uuid \in FreshUuids(target.tree),
                 fail \in 0..(Cardinality(refs.elements) + Cardinality(refs.relations) + 2) :
                   LET r == copy_view(source, target, view, elem_iter, rel_iter, uuid, fail)
                   IN  Recorded(r @@ [node |-> 0], "copy", id, <<>>)
    /\ calls' = calls + 1
    /\ UNCHANGED <<parse_call, source, pc, missing_views, rerun_missing_views, selected_indices,
                   idx_pos, copied, file, write_calls>>

ApiResolveFolderPath ==
    /\ pc = "api"
    /\ calls < MaxCalls
    /\ \E path \in FolderPaths, uuid \in FreshUuids(target.tree) :
          LET r == recursive_find_or_create_folder_path(target.tree, path, uuid)
          IN  Recorded([target |-> [target EXCEPT !.tree = r.tree], ok |-> TRUE,
                        ret |-> <<0, 0, 0>>, node |-> r.node], "resolve", "", path)
    /\ calls' = calls + 1
    /\ UNCHANGED <<parse_call, source, pc, missing_views, rerun_missing_views, selected_indices,
                   idx_pos, copied, file, write_calls>>

NextApi ==
    \/ ApiCopyView
    \/ ApiResolveFolderPath

SpecApi == InitApi /\ [][NextApi]_vars

-----------------------------------------------------------------------------
(* parse_selection called directly on every short line *)

ParseAlphabet == {"0", "1", "2", "-", ","}

ParseInputs ==
    Inputs \cup { <<" ", "1", " ", "-", " ", "2", " ">>, <<"1", ",", " ", "2">>, <<"a", "l", "l", ",", "1">> }
           \cup UNION {[1..n -> ParseAlphabet] : n \in 0..MaxInputLen}

InitParse ==
    /\ source = load_model(SourceA)
    /\ target = load_model(TargetViewsOnly)
    /\ file = TargetViewsOnly
    /\ missing_views = <<>>
    /\ rerun_missing_views = None
    /\ selected_indices = <<>>
    /\ idx_pos = 1
    /\ copied = <<0, 0, 0>>
    /\ write_calls = 0
    /\ last_op = NoOp(target)
    /\ prev_op = Summary(NoOp(target))
    /\ calls = 0
    /\ parse_call = NoParseCall
    /\ pc = "parse"

ApiParseSelection ==
    /\ pc = "parse"
    /\ ~parse_call.called
    /\ \E input \in ParseInputs, max_count \in 0..MaxCount :
          parse_call' = ParseCall(input, max_count, parse_selection(input, max_count))
    /\ UNCHANGED <<source, target, pc, missing_views, rerun_missing_views, selected_indices,
                   idx_pos, copied, file, write_calls, last_op, prev_op, calls>>

NextParse == ApiParseSelection

SpecParse == InitParse /\ [][NextParse]_vars

-----------------------------------------------------------------------------
(* load_model called directly on every small document with pairwise distinct ids *)

NodeIds == <<"n1", "n2", "n3", "n4", "n5", "n6", "n7", "n8">>
FolderNames == <<"F1", "F2", "F3", "F4", "F5", "F6", "F7", "F8">>
NodeKinds == {"folder", "typed", "view", "untyped"}

\* the parents of nodes 2..n+1 of a document in document order: the parent of
\* a node is the node before it or one of that node's ancestors
RECURSIVE IsAncestorOrSelf(_, _, _)
IsAncestorOrSelf(par, a, i) ==
    IF i = a THEN TRUE ELSE IF i = 1 THEN FALSE ELSE IsAncestorOrSelf(par, a, par[i])

Shapes(n) ==
    {par \in [2..(n + 1) -> 1..n] :
        \A i \in 2..(n + 1) : par[i] < i /\ IsAncestorOrSelf(par, par[i], i - 1)}

GeneratedNode(kind, i, parent) ==
    CASE kind = "folder"  -> Folder(NodeIds[i], FolderNames[i], None, parent)
      [] kind = "typed"   -> Element("BusinessActor", NodeIds[i], Some("Actor"), parent)
      [] kind = "view"    -> Element("ArchimateDiagramModel", NodeIds[i], None, parent)
      [] kind = "untyped" -> Untyped(NodeIds[i], parent)

\* the document of n nodes below the root container with the given parents and kinds
GeneratedDocument(n, par, kind) ==
    [i \in 1..(n + 1) |-> IF i = 1 THEN Model ELSE GeneratedNode(kind[i], i, par[i])]

\* a model before load_model has run
NotLoaded == [tree |-> xot_parse(<<Model>>), element_map |-> <<>>, view_map |-> <<>>]

InitIndex ==
    /\ \E n \in 0..MaxNodes :
          \E par \in Shapes(n), kind \in [2..(n + 1) -> NodeKinds] :
             file = GeneratedDocument(n, par, kind)
    /\ source = NotLoaded
    /\ target = NotLoaded
    /\ missing_views = <<>>
    /\ rerun_missing_views = None
    /\ selected_indices = <<>>
    /\ idx_pos = 1
    /\ copied = <<0, 0, 0>>
    /\ write_calls = 0
    /\ last_op = NoOp(NotLoaded)
    /\ prev_op = Summary(NoOp(NotLoaded))
    /\ calls = 0
    /\ parse_call = NoParseCall
    /\ pc = "load"

ApiLoadModel ==
    /\ pc = "load"
    /\ target' = load_model(file)
    /\ pc' = "loaded"
    /\ UNCHANGED <<parse_call, source, missing_views, rerun_missing_views, selected_indices,
                   idx_pos, copied, file, write_calls, last_op, prev_op, calls>>

NextIndex == ApiLoadModel

SpecIndex == InitIndex /\ [][NextIndex]_vars

-----------------------------------------------------------------------------
(* Reading the state back *)

Handles(tree) == 1..Len(tree.nodes)

IsViewType(n) == n.xsi_type # None /\ EndsWith(n.xsi_type[1], DiagramModelSuffix)

\* the nodes of the document that are typed model nodes with the given id
NodesWithId(tree, id) ==
    {h \in Handles(tree) : /\ tree.nodes[h].tag = "element"
                           /\ tree.nodes[h].xsi_type # None
                           /\ tree.nodes[h].id = Some(id)}

\* the nodes the last call put below a folder: its copies of elements, relationships and views
CopiedNodes ==
    {h \in (Len(last_op.pre.tree.nodes) + 1)..Len(target.tree.nodes) :
        /\ target.tree.nodes[h].tag = "element"
        /\ target.tree.nodes[target.tree.nodes[h].parent].tag = "folder"}

CopiedEntities == {h \in CopiedNodes : ~IsViewType(target.tree.nodes[h])}

\* the names of the folders from the root container down to node h, h included
RECURSIVE FolderNamesDownTo(_, _)
FolderNamesDownTo(tree, h) ==
    IF h = RootContainer THEN <<>>
    ELSE Append(FolderNamesDownTo(tree, tree.nodes[h].parent), tree.nodes[h].name[1])

FolderChain(tree, h) == FolderNamesDownTo(tree, tree.nodes[h].parent)

Names(folder_path) == [i \in 1..Len(folder_path) |-> folder_path[i].name]

IsPrefix(s, t) == Len(s) <= Len(t) /\ SubSeq(t, 1, Len(s)) = s

CopyDone == last_op.op = "copy"
CopyOk == last_op.op = "copy" /\ last_op.ok
LastRefs == referenced(source, last_op.view)
LastRefIds == LastRefs.elements \cup LastRefs.relations

\* the keys of an element_map whose entries are elements or relationships
EntityKeys(m) == {k \in DOMAIN m : ~IsViewType(m[k].xml_string[1])}

-----------------------------------------------------------------------------
(* Claims *)

\* C1: No duplication. An element or relationship id that is a key of
\* target.element_map when a call of copy_view starts gets no further node in
\* the target tree by that call, whatever views reference it.
C1_NoDuplication ==
    CopyDone =>
        \A id \in EntityKeys(last_op.pre.element_map) :
            NodesWithId(target.tree, id) = NodesWithId(last_op.pre.tree, id)

\* C1 witness: a second view has been merged that references an element the
\* merge of another view had copied before.
C1_Witness ==
    /\ CopyOk
    /\ prev_op.op = "copy" /\ prev_op.ok /\ prev_op.view # last_op.view
    /\ prev_op.ret[2] > 0
    /\ \E id \in LastRefs.elements :
          /\ id \in referenced(source, prev_op.view).elements
          /\ id \in DOMAIN last_op.pre.element_map
          /\ Cardinality(NodesWithId(target.tree, id)) = 1

\* C2 as stated: after a successful copy_view every id the reference extractor
\* collects from the view is a key of target.element_map.
C2_AllReferencesIndexed ==
    CopyOk => LastRefIds \subseteq DOMAIN target.element_map

\* C2 amended: after a successful copy_view every collected id that is a key of
\* source.element_map, or was a key of target.element_map before the call, is a
\* key of target.element_map.
C2_KnownReferencesIndexed ==
    CopyOk =>
        \A id \in LastRefIds :
            (id \in DOMAIN source.element_map \/ id \in DOMAIN last_op.pre.element_map)
                => id \in DOMAIN target.element_map

\* C2 witness: a successful merge that had to copy a referenced id.
C2_Witness ==
    /\ CopyOk
    /\ \E id \in LastRefIds : /\ id \notin DOMAIN last_op.pre.element_map
                              /\ id \in DOMAIN target.element_map

\* C3: after a successful copy_view the id of the merged view is a key of
\* target.view_map.
C3_ViewRecorded ==
    CopyOk => last_op.view \in DOMAIN target.view_map

\* C4: copy_view returns (1, e, r) with e the number of element nodes and r the
\* number of relationship nodes the call put into the target tree, and e + r the
\* number of keys it added to target.element_map for them.
C4_CountsAreCopies ==
    CopyOk =>
        /\ last_op.ret[1] = 1
        /\ last_op.ret[2] =
              Cardinality({h \in CopiedEntities : target.tree.nodes[h].id[1] \in LastRefs.elements})
        /\ last_op.ret[3] =
              Cardinality({h \in CopiedEntities : target.tree.nodes[h].id[1] \in LastRefs.relations})
        /\ last_op.ret[2] + last_op.ret[3] =
              Cardinality(EntityKeys(target.element_map) \ EntityKeys(last_op.pre.element_map))

\* C5: Diff correctness. The ids of the list of find_missing_views are the keys
\* of source.view_map that are no keys of target.view_map, each once, and every
\* record carries the name and the folder path of the source entry.
C5_DiffCorrect ==
    (pc # "diff" /\ last_op.op = "none") =>
        /\ {missing_views[i].id : i \in 1..Len(missing_views)}
              = DOMAIN source.view_map \ DOMAIN target.view_map
        /\ \A i, j \in 1..Len(missing_views) :
              missing_views[i].id = missing_views[j].id => i = j
        /\ \A i \in 1..Len(missing_views) :
              /\ missing_views[i].id \in DOMAIN source.view_map
              /\ missing_views[i].name = source.view_map[missing_views[i].id].name
              /\ missing_views[i].folder_path = source.view_map[missing_views[i].id].folder_path

\* C5 witness: a diff that left out a view the target has and listed another.
C5_Witness ==
    /\ pc = "select"
    /\ DOMAIN source.view_map \cap DOMAIN target.view_map # {}
    /\ missing_views # <<>>

\* C6: two runs over the same source and target documents list the missing
\* views in the same order.
C6_StableOrder ==
    rerun_missing_views # None => rerun_missing_views[1] = missing_views

\* C7: Idempotent folder resolution. Of two calls in a row of
\* recursive_find_or_create_folder_path with the same path, the second returns
\* the node the first returned and leaves the tree as it was.
C7_IdempotentResolution ==
    (last_op.op = "resolve" /\ prev_op.op = "resolve" /\ last_op.path = prev_op.path) =>
        /\ last_op.node = prev_op.node
        /\ target.tree = last_op.pre.tree

\* C7 witness: the same path resolved twice in a row, the first call having
\* created the folder it returned.
C7_Witness ==
    /\ last_op.op = "resolve" /\ prev_op.op = "resolve" /\ last_op.path = prev_op.path
    /\ last_op.node > Len(file)

\* C8: Folder path preservation. The names of the folders from the root
\* container down to the parent of a node copy_view copied are the names of the
\* folder_path the source index records for the node's id.
C8_FolderPathPreserved ==
    CopyDone =>
        \A h \in CopiedNodes :
            LET n == target.tree.nodes[h]
                info == IF IsViewType(n) THEN source.view_map[n.id[1]]
                                         ELSE source.element_map[n.id[1]]
            IN  FolderChain(target.tree, h) = Names(info.folder_path)

\* C8 witness: a merge that copied a node into a folder two levels down.
C8_Witness ==
    /\ CopyOk
    /\ \E h \in CopiedNodes : Len(FolderChain(target.tree, h)) = 2

\* C9: Insert-only merge. After any sequence of calls every node of the
\* document the target was loaded from is in the tree with its attributes and
\* its parent, and the children it had are the first of its children, in their
\* order; everything else is a node appended later.
C9_InsertOnly ==
    LET loaded == xot_parse(file)
    IN  /\ IsPrefix(loaded.nodes, target.tree.nodes)
        /\ \A h \in Handles(loaded) :
              /\ IsPrefix(loaded.kids[h], target.tree.kids[h])
              /\ \A i \in (Len(loaded.kids[h]) + 1)..Len(target.tree.kids[h]) :
                    target.tree.kids[h][i] > Len(loaded.nodes)

\* C9 witness: two merges in a row, after which a folder that had children has
\* one more.
C9_Witness ==
    /\ CopyOk /\ prev_op.op = "copy" /\ prev_op.ok
    /\ \E h \in 1..Len(file) :
          /\ xot_parse(file).kids[h] # <<>>
          /\ target.tree.nodes[h].tag = "folder"
          /\ Len(target.tree.kids[h]) > Len(xot_parse(file).kids[h])

\* C10: Persistence protocol. write_xml is called at most once, and only after
\* the loop has merged every selected view; the text of the target file changes
\* in that call only; a run with no missing view or an empty selection ends
\* successfully without a write, and a run that fails in a merge or in the
\* serialization never writes.
C10_WriteProtocol ==
    [][ /\ (write_calls' # write_calls =>
              /\ write_calls = 0 /\ write_calls' = 1
              /\ pc = "serialize"
              /\ selected_indices # <<>>
              /\ idx_pos = Len(selected_indices) + 1
              /\ CopyOk)
        /\ (file' # file => write_calls' # write_calls)
        /\ ((pc = "diff" /\ missing_views' = <<>>) => (pc' = "done" /\ write_calls' = 0))
        /\ ((pc = "select" /\ pc' \notin {"select", "failed"} /\ selected_indices' = <<>>)
               => (pc' = "done" /\ write_calls' = 0))
        /\ (pc' = "failed" => write_calls' = 0)
        /\ (pc \in {"done", "failed", "exit1"} => UNCHANGED vars)
      ]_vars

\* C10 witness: a run that merged two selected views and wrote the target.
C10_Witness ==
    /\ pc = "done"
    /\ write_calls = 1
    /\ Len(selected_indices) = 2
    /\ file = serialize_xml_string(target.tree, RootContainer)

-----------------------------------------------------------------------------
(* Claims on identifiers, re-merge, selection and the index *)

\* the handles of the nodes of the document that carry an id attribute
NodesWithAnyId(tree) == {h \in Handles(tree) : tree.nodes[h].id # None}

DistinctIds(tree) ==
    \A g, h \in NodesWithAnyId(tree) : tree.nodes[g].id = tree.nodes[h].id => g = h

\* C11: No identifier collisions. The target was loaded from a document whose
\* ids are pairwise distinct; after any sequence of calls of copy_view no two
\* nodes of the target tree, folders included, carry the same id.
C11_NoIdCollision ==
    DistinctIds(xot_parse(file)) => DistinctIds(target.tree)

\* C12: Re-merge. A successful copy_view that directly follows a successful
\* copy_view of the same view returns (1, 0, 0).
C12_RemergeCopiesNothing ==
    (CopyOk /\ prev_op.op = "copy" /\ prev_op.ok /\ prev_op.view = last_op.view)
        => last_op.ret = <<1, 0, 0>>

\* C14: the list main iterates names no view twice, and the views merged so
\* far are the selected ones, one call each, in the order of the selection.
C14_SelectionIsOrderedSet ==
    /\ \A i, j \in 1..Len(selected_indices) :
          selected_indices[i] = selected_indices[j] => i = j
    /\ (CopyOk /\ pc \in {"copy", "serialize", "done", "exit1"}) =>
          last_op.view = missing_views[selected_indices[idx_pos - 1]].id

\* C15: No stale reads inside one merge. One call of copy_view puts at most one
\* node of a given id into the target tree.
C15_OneInsertPerId ==
    CopyDone =>
        \A g, h \in CopiedNodes :
            target.tree.nodes[g].id = target.tree.nodes[h].id => g = h

KeysAreIds(m) == \A k \in DOMAIN m : m[k].id = k

\* C16: for the source index and the target index, every key of element_map
\* and of view_map is the id of its entry, and no id is a key of both maps of
\* one index.
C16_IndexWellFormed ==
    /\ KeysAreIds(source.element_map) /\ KeysAreIds(source.view_map)
    /\ KeysAreIds(target.element_map) /\ KeysAreIds(target.view_map)
    /\ DOMAIN source.element_map \cap DOMAIN source.view_map = {}
    /\ DOMAIN target.element_map \cap DOMAIN target.view_map = {}

\* C16 witness: a finished run over a target that had a view of its own, after
\* which the merged view is a key of target.element_map.
C16_Witness ==
    /\ pc = "done" /\ write_calls = 1
    /\ DOMAIN source.element_map # {}
    /\ DOMAIN target.view_map # {}
    /\ last_op.view \in DOMAIN target.element_map
    /\ \E id \in LastRefIds : id \notin DOMAIN last_op.pre.element_map
                              /\ id \in DOMAIN target.element_map

\* the reference of C13: what a line selects, part by part
IsNumber(s) == s # <<>> /\ Range(s) \subseteq Digits

\* the positions at which part reads as a range a-b of two numbers
RangeCuts(part) ==
    {i \in 1..Len(part) : /\ part[i] = "-"
                          /\ IsNumber(Trim(SubSeq(part, 1, i - 1)))
                          /\ IsNumber(Trim(SubSeq(part, i + 1, Len(part))))}

\* the numbers a part names, and whether the part is a number or a range within 1..max_count
PartMeaning(part, max_count) ==
    IF IsNumber(part)
    THEN [valid |-> DecimalValue(part) \in 1..max_count, nums |-> {DecimalValue(part)}]
    ELSE IF RangeCuts(part) # {}
    THEN LET i == CHOOSE c \in RangeCuts(part) : TRUE
             a == DecimalValue(Trim(SubSeq(part, 1, i - 1)))
             b == DecimalValue(Trim(SubSeq(part, i + 1, Len(part))))
         IN  [valid |-> 1 <= a /\ a <= b /\ b <= max_count, nums |-> a..b]
    ELSE [valid |-> FALSE, nums |-> {}]

SelectionReference(input, max_count) ==
    IF ToLowercase(Trim(input)) = <<"a", "l", "l">>
    THEN [ok |-> TRUE, val |-> [i \in 1..max_count |-> i]]
    ELSE LET split == Split(input, ",")
             parts == {Trim(split[i]) : i \in 1..Len(split)} \ {<<>>}
         IN  IF \A part \in parts : PartMeaning(part, max_count).valid
             THEN [ok |-> TRUE,
                   val |-> SetToSeq(UNION {PartMeaning(part, max_count).nums : part \in parts})]
             ELSE SelectionErr

NodeOfKey(tree, k) == CHOOSE h \in NodesWithId(tree, k) : TRUE

\* C17: every entry of the index load_model builds records as folder_path the
\* names of the folders that enclose its node, from the root container down to
\* the node's parent, and nothing of a sibling branch.
C17_FolderPathIsAncestorChain ==
    pc = "loaded" =>
        /\ \A k \in DOMAIN target.element_map :
              /\ NodesWithId(target.tree, k) # {}
              /\ Names(target.element_map[k].folder_path)
                    = FolderChain(target.tree, NodeOfKey(target.tree, k))
        /\ \A k \in DOMAIN target.view_map :
              /\ NodesWithId(target.tree, k) # {}
              /\ Names(target.view_map[k].folder_path)
                    = FolderChain(target.tree, NodeOfKey(target.tree, k))

\* C17 witness: an entry two folders deep whose parent folder has an earlier
\* sibling folder.
C17_Witness ==
    /\ pc = "loaded"
    /\ \E k \in DOMAIN target.element_map \cup DOMAIN target.view_map :
          LET h == NodeOfKey(target.tree, k)
              p == target.tree.nodes[h].parent
          IN  /\ Len(FolderChain(target.tree, h)) = 2
              /\ \E g \in Handles(target.tree) :
                    /\ g < p
                    /\ target.tree.nodes[g].tag = "folder"
                    /\ target.tree.nodes[g].parent = target.tree.nodes[p].parent

\* every node from h up to the root container, h included, is a folder
RECURSIVE InFolderTree(_, _)
InFolderTree(tree, h) ==
    IF h = RootContainer THEN TRUE
    ELSE tree.nodes[h].tag = "folder" /\ InFolderTree(tree, tree.nodes[h].parent)

\* the element nodes the walk of the folder tree comes to
ReachedElements(tree) ==
    {h \in Handles(tree) : /\ tree.nodes[h].tag = "element"
                           /\ tree.nodes[h].parent # 0
                           /\ tree.nodes[h].parent # RootContainer
                           /\ InFolderTree(tree, tree.nodes[h].parent)}

HasDiagramModelType(n) ==
    /\ n.xsi_type # None
    /\ n.xsi_type[1] # <<>>
    /\ n.xsi_type[1][Len(n.xsi_type[1])] = "ArchimateDiagramModel"

\* C18: in the index of a document with pairwise distinct ids, an element node
\* with xsi:type that lies in the folder tree is a key of view_map alone when
\* its type ends with ArchimateDiagramModel and of element_map alone otherwise,
\* and a node without xsi:type is a key of neither.
C18_Classification ==
    pc = "loaded" =>
        \A h \in ReachedElements(target.tree) :
            LET n  == target.tree.nodes[h]
                id == n.id[1]
            IN  IF n.xsi_type = None
                THEN id \notin DOMAIN target.element_map /\ id \notin DOMAIN target.view_map
                ELSE IF HasDiagramModelType(n)
                THEN id \in DOMAIN target.view_map /\ id \notin DOMAIN target.element_map
                ELSE id \in DOMAIN target.element_map /\ id \notin DOMAIN target.view_map

\* C18 witness: a loaded document with a view, a typed element and an untyped
\* element inside folders.
C18_Witness ==
    /\ pc = "loaded"
    /\ \E a, b, c \in ReachedElements(target.tree) :
          /\ HasDiagramModelType(target.tree.nodes[a])
          /\ target.tree.nodes[b].xsi_type # None /\ ~HasDiagramModelType(target.tree.nodes[b])
          /\ target.tree.nodes[c].xsi_type = None
          /\ target.tree.nodes[a].id[1] \in DOMAIN target.view_map
          /\ target.tree.nodes[b].id[1] \in DOMAIN target.element_map

=============================================================================
